---- MODULE Spec2Model ----
(***************************************************************************)
(* Model of miio/viomivacuum.py: the ViomiVacuum command facade (edge-mode *)
(* and room-table cache, map mutation, room-table derivation from the      *)
(* schedule list, start/pause/stop), the follow_position polling loop,     *)
(* manual movement (move), the ViomiVacuumStatus decoder, the              *)
(* ViomiConsumableStatus accessors and ViomiPositionPoint comparison.      *)
(*                                                                         *)
(* Strings that the code splits or compares are sequences of one-character *)
(* strings ("11" is <<"1","1">>).  The transport (Device.send and          *)
(* Device.get_properties) is the environment: every reply is chosen with   *)
(* \E from a small set.  A transport exception is modelled where the code  *)
(* catches one (follow_position) and in move, whose last command depends   *)
(* on it; elsewhere it would propagate from every method alike.            *)
(***************************************************************************)
EXTENDS Integers, Sequences, FiniteSets, TLC

VARIABLES cache, lastCall,
          fp_pc, positions, position_history, no_pos_found, segments,
          stale_polls, empty_run, fp_event,
          status_data, decoded,
          ordertime, derived,
          mv_pc, mv_direction, mv_duration, mv_elapsed, mv_sent,
          pt_a, pt_b, pt_eq,
          cons_data, cons_out

vars == <<cache, lastCall,
          fp_pc, positions, position_history, no_pos_found, segments,
          stale_polls, empty_run, fp_event,
          status_data, decoded,
          ordertime, derived,
          mv_pc, mv_direction, mv_duration, mv_elapsed, mv_sent,
          pt_a, pt_b, pt_eq,
          cons_data, cons_out>>

facadeVars == <<cache, lastCall>>
followVars == <<fp_pc, positions, position_history, no_pos_found, segments,
                stale_polls, empty_run, fp_event>>
statusVars == <<status_data, decoded>>
deriveVars == <<ordertime, derived>>
moveVars == <<mv_pc, mv_direction, mv_duration, mv_elapsed, mv_sent>>
pointVars == <<pt_a, pt_b, pt_eq>>
consumableVars == <<cons_data, cons_out>>

(***************************************************************************)
(* Bounds                                                                  *)
(***************************************************************************)
MaxSchedules == 2
MaxRooms == 2
MaxMaps == 2

\* two ViomiVacuum objects of one process
Sessions == {1, 2}

(***************************************************************************)
(* Generic helpers                                                         *)
(***************************************************************************)
SeqsUpTo(S, n) == UNION {[1..k -> S] : k \in 0..n}

Range(f) == {f[i] : i \in DOMAIN f}

\* Python's None where a string is expected (zip_longest fillvalue)
NoneStr == <<"<None>">>

\* str.split("_")
RECURSIVE split(_)
split(str) ==
    IF \E i \in 1..Len(str) : str[i] = "_"
    THEN LET i == CHOOSE k \in 1..Len(str) :
                     /\ str[k] = "_"
                     /\ \A j \in 1..(k - 1) : str[j] # "_"
         IN <<SubSeq(str, 1, i - 1)>> \o split(SubSeq(str, i + 1, Len(str)))
    ELSE <<str>>

\* "_".join(fields): how the device builds a schedule string
RECURSIVE join(_)
join(fields) ==
    IF Len(fields) = 0 THEN <<>>
    ELSE IF Len(fields) = 1 THEN fields[1]
    ELSE fields[1] \o <<"_">> \o join(Tail(fields))

(***************************************************************************)
(* Python dict with insertion order: a sequence of <<key, value>> pairs    *)
(* with distinct keys.                                                     *)
(***************************************************************************)
DictKeys(d) == {d[i][1] : i \in DOMAIN d}
DictValues(d) == {d[i][2] : i \in DOMAIN d}
DictItems(d) == {d[i] : i \in DOMAIN d}
DictHas(d, k) == k \in DictKeys(d)
DictGet(d, k) == d[CHOOSE i \in DOMAIN d : d[i][1] = k][2]

\* d[k] = v
DictSet(d, k, v) ==
    IF DictHas(d, k)
    THEN [i \in DOMAIN d |-> IF d[i][1] = k THEN <<k, v>> ELSE d[i]]
    ELSE Append(d, <<k, v>>)

\* d.update(pairs) for a sequence of pairs; also dict(pairs) from {}
RECURSIVE DictUpdate(_, _)
DictUpdate(d, pairs) ==
    IF pairs = <<>> THEN d
    ELSE DictUpdate(DictSet(d, pairs[1][1], pairs[1][2]), Tail(pairs))

\* {v: k for k, v in d.items()}
ReverseDict(d) == DictUpdate(<<>>, [i \in DOMAIN d |-> <<d[i][2], d[i][1]>>])

\* the same pairing the fields as name, id
ZipLongestPairsSwapped(raw_rooms) ==
    [i \in 1..((Len(raw_rooms) + 1) \div 2) |->
        <<IF 2 * i <= Len(raw_rooms) THEN raw_rooms[2 * i] ELSE NoneStr,
          raw_rooms[2 * i - 1]>>]

\* itertools.zip_longest(it, it, fillvalue=None) over one shared iterator
ZipLongestPairs(raw_rooms) ==
    [i \in 1..((Len(raw_rooms) + 1) \div 2) |->
        <<raw_rooms[2 * i - 1],
          IF 2 * i <= Len(raw_rooms) THEN raw_rooms[2 * i] ELSE NoneStr>>]

(***************************************************************************)
(* Device replies                                                          *)
(***************************************************************************)
\* get_properties(["mode"]): the edge mode as a one-element list
ModeReplies == {<<0>>, <<2>>}

MapEntries == {[id |-> 1, name |-> "A"], [id |-> 2, name |-> "B"]}
MapReplies == SeqsUpTo(MapEntries, MaxMaps)
MapIdArgs == {1, 2, 3}
\* the (map_id, map_name) arguments of get_rooms; 0 and "" are the defaults
RoomsMapArgs == {<<0, "">>, <<1, "">>, <<0, "A">>}
\* the get_map replies get_rooms is run against
RoomsMapReplies == {<<>>, <<[id |-> 1, name |-> "A"]>>}

\* [id, enabled, repeatdays, hour, minute, ?, ?, ?, ?, ?, ?, nb_of_rooms, ...]
ScheduleHeader(enabled, hour, minute, count) ==
    << <<"1">>, enabled, <<"3","2">>, hour, minute, <<"0">>, <<"1">>, <<"1">>,
       <<"1","1">>, <<"0">>, <<"9">>, count >>

ScheduleTimes == { << <<"0">>, <<"0">>, <<"0">> >>,
                   << <<"1">>, <<"0">>, <<"0">> >>,
                   << <<"0">>, <<"1","0">>, <<"0">> >>,
                   << <<"0">>, <<"0">>, <<"3">> >> }

\* room tails as the device holds them: <<count, id, name, id, name, ...>>
\* the last one has a room name that contains an underscore
ScheduleRooms == { << <<"0">> >>,
                   << <<"2">>, <<"1","1">>, <<"a","m","i">>,
                               <<"1","2">>, <<"s","d","b">> >>,
                   << <<"1">>, <<"1","1">>, <<"a","_","b">> >> }

RawSchedules ==
    { join(ScheduleHeader(t[1], t[2], t[3], r[1]) \o Tail(r)) :
        t \in ScheduleTimes, r \in ScheduleRooms }

ScheduleReplies == SeqsUpTo(RawSchedules, MaxSchedules)

\* the replies the cached facade is run against: no schedule, an enabled
\* one, each fake schedule alone, and the two fake schedules with rooms
FakeSchedule(r) ==
    join(ScheduleHeader(<<"0">>, <<"0">>, <<"0">>, r[1]) \o Tail(r))

FacadeScheduleReplies ==
    { <<>>, <<join(ScheduleHeader(<<"1">>, <<"0">>, <<"0">>, <<"0">>))>> }
    \cup { <<FakeSchedule(r)>> : r \in ScheduleRooms }
    \cup { <<FakeSchedule(p[1]), FakeSchedule(p[2])>> :
             p \in { q \in ScheduleRooms \X ScheduleRooms :
                        /\ q[1] # q[2]
                        /\ << <<"0">> >> \notin {q[1], q[2]} } }

\* a reply is drawn only when the call asks the device
RepliesIf(asked, replies) == IF asked THEN replies ELSE {<<>>}

RoomArgs == { <<"1","1">>, <<"s","d","b">>, <<"x">> }
RoomsArgs == SeqsUpTo(RoomArgs, MaxRooms)

(***************************************************************************)
(* The class attribute _cache = {"edge_state": None, "rooms": {}}          *)
(***************************************************************************)
EdgeNone == [isNone |-> TRUE, list |-> <<>>]
EdgeList(l) == [isNone |-> FALSE, list |-> l]
\* Python truthiness of _cache["edge_state"]
EdgeTruthy(e) == ~e.isNone /\ e.list # <<>>

\* self._cache of session s: line 478 binds one dict to the class, no
\* method rebinds it on the instance, so every session reads that dict
SessionCache(s) == cache

Rpc(verb, ints, strs) == [verb |-> verb, ints |-> ints, strs |-> strs]

Result(kind, what) ==
    [kind |-> kind, what |-> what, id |-> 0, room |-> <<>>,
     ids |-> {}, names |-> {}, table |-> <<>>]

\* one finished method call: its arguments, the get_map reply it read (if
\* any), the RPCs it sent in order, and what it returned or raised
Call(op, s, id, rooms, refresh, maps, sent, result) ==
    [op |-> op, s |-> s, id |-> id, rooms |-> rooms, refresh |-> refresh,
     maps |-> maps, sent |-> sent, result |-> result]

NoCall == Call("none", 0, 0, <<>>, FALSE, <<>>, <<>>, Result("none", ""))

(***************************************************************************)
(* get_rooms: room-table derivation from the schedule list                 *)
(***************************************************************************)
\* the same without the test of the minute
IsFakeScheduleAnyMinute(schedule) ==
    schedule[2] = <<"0">> /\ schedule[4] = <<"0">>

\* the test of line 966 on one split schedule
IsFakeSchedule(schedule) ==
    schedule[2] = <<"0">> /\ schedule[4] = <<"0">> /\ schedule[5] = <<"0">>

\* the loop of lines 961-972
RECURSIVE ParseSchedules(_, _, _)
ParseSchedules(schedules, rooms, scheduled_found) ==
    IF schedules = <<>>
    THEN [rooms |-> rooms, scheduled_found |-> scheduled_found]
    ELSE LET schedule == split(schedules[1])
         IN  IF IsFakeSchedule(schedule)
             THEN LET raw_rooms == SubSeq(schedule, 13, Len(schedule))
                  IN ParseSchedules(
                        Tail(schedules),
                        DictUpdate(rooms,
                                   DictUpdate(<<>>, ZipLongestPairs(raw_rooms))),
                        TRUE)
             ELSE ParseSchedules(Tail(schedules), rooms, scheduled_found)

GetMapsRpc == Rpc("get_map", <<>>, <<>>)
GetOrdertimeRpc == Rpc("get_ordertime", <<>>, <<>>)
GetModeRpc == Rpc("get_prop", <<>>, << <<"m","o","d","e">> >>)

MapIds(maps) == {maps[i].id : i \in DOMAIN maps}

\* get_rooms(map_id, map_name, refresh) on cache c; maps and schedules are
\* the device's replies to get_map and get_ordertime, used if requested.
\* map_id 0 and map_name "" stand for the falsy defaults.
get_rooms(c, map_id, map_name, refresh, maps, schedules) ==
    IF c.rooms # <<>> /\ ~refresh
    THEN [cache |-> c, sent |-> <<>>,
          result |-> [Result("return", "rooms") EXCEPT !.table = c.rooms]]
    ELSE IF map_name # "" /\ ~\E i \in DOMAIN maps : maps[i].name = map_name
    THEN [cache |-> c, sent |-> <<GetMapsRpc>>,
          result |-> Result("ViomiVacuumException", "bad_map_name")]
    ELSE IF map_name = "" /\ map_id # 0 /\ map_id \notin MapIds(maps)
    THEN [cache |-> c, sent |-> <<GetMapsRpc>>,
          result |-> Result("ViomiVacuumException", "bad_map_id")]
    ELSE LET pre == IF map_name # "" \/ map_id # 0 THEN <<GetMapsRpc>> ELSE <<>>
             parsed == ParseSchedules(schedules, <<>>, FALSE)
         IN  IF ~parsed.scheduled_found
             THEN [cache |-> c, sent |-> pre \o <<GetOrdertimeRpc>>,
                   result |-> Result("ViomiVacuumException",
                                     "fake_schedule_not_found")]
             ELSE [cache |-> [c EXCEPT !.rooms = parsed.rooms],
                   sent |-> pre \o <<GetOrdertimeRpc>>,
                   result |-> [Result("return", "rooms")
                                  EXCEPT !.table = parsed.rooms]]

GetRooms(s) ==
    \E m \in RoomsMapArgs, refresh \in BOOLEAN :
    \E maps \in RepliesIf((cache.rooms = <<>> \/ refresh) /\ m # <<0, "">>,
                          RoomsMapReplies),
       schedules \in RepliesIf(cache.rooms = <<>> \/ refresh,
                               FacadeScheduleReplies) :
        \E g \in {get_rooms(cache, m[1], m[2], refresh, maps, schedules)} :
            /\ cache' = g.cache
            /\ lastCall' = Call("get_rooms", s, m[1], <<>>, refresh, maps,
                                g.sent, g.result)
            /\ UNCHANGED <<followVars, statusVars, deriveVars,
                 moveVars, pointVars, consumableVars>>

(***************************************************************************)
(* start / start_with_room / pause / stop                                  *)
(***************************************************************************)
Start(s) ==
    /\ \E mode \in ModeReplies :
        /\ cache' = [cache EXCEPT !.edge_state = EdgeList(mode)]
        /\ lastCall' = Call("start", s, 0, <<>>, FALSE, <<>>,
                            <<GetModeRpc,
                              Rpc("set_mode_withroom", mode \o <<1, 0>>, <<>>)>>,
                            Result("return", "None"))
    /\ UNCHANGED <<followVars, statusVars, deriveVars,
                 moveVars, pointVars, consumableVars>>

\* the same without the lookup of the id of a name
RECURSIVE ResolveRoomsNoLookup(_, _, _)
ResolveRoomsNoLookup(table, rooms, room_ids) ==
    IF rooms = <<>> THEN [ok |-> TRUE, room_ids |-> room_ids, room |-> <<>>]
    ELSE LET room == rooms[1]
         IN  IF DictHas(table, room) \/ DictHas(ReverseDict(table), room)
             THEN ResolveRoomsNoLookup(table, Tail(rooms),
                                       Append(room_ids, room))
             ELSE [ok |-> FALSE, room_ids |-> room_ids, room |-> room]

\* the loop of lines 603-614: the resolved ids up to the first unknown room
RECURSIVE ResolveRooms(_, _, _)
ResolveRooms(table, rooms, room_ids) ==
    IF rooms = <<>> THEN [ok |-> TRUE, room_ids |-> room_ids, room |-> <<>>]
    ELSE LET room == rooms[1]
             reverse_rooms == ReverseDict(table)
         IN  IF DictHas(table, room)
             THEN ResolveRooms(table, Tail(rooms), Append(room_ids, room))
             ELSE IF DictHas(reverse_rooms, room)
             THEN ResolveRooms(table, Tail(rooms),
                               Append(room_ids, DictGet(reverse_rooms, room)))
             ELSE [ok |-> FALSE, room_ids |-> room_ids, room |-> room]

\* the value of lines 610-614; ", ".join raises TypeError on a None name
UnknownRoomResult(table, room) ==
    IF NoneStr \in DictValues(table)
    THEN Result("TypeError", "join")
    ELSE [Result("return", "rooms_unknown")
             EXCEPT !.room = room, !.ids = DictKeys(table),
                    !.names = DictValues(table)]

StartWithRoom(s) ==
    /\ \E rooms \in RoomsArgs,
          schedules \in RepliesIf(cache.rooms = <<>>, FacadeScheduleReplies) :
        \E g \in {IF cache.rooms = <<>>
                  THEN get_rooms(cache, 0, "", FALSE, <<>>, schedules)
                  ELSE [cache |-> cache, sent |-> <<>>,
                        result |-> Result("return", "cached")]} :
        \E r \in {ResolveRooms(g.cache.rooms, rooms, <<>>)} :
            IF g.result.kind # "return"
            THEN /\ cache' = g.cache
                 /\ lastCall' = Call("start_with_room", s, 0, rooms, FALSE, <<>>,
                                     g.sent, g.result)
            ELSE IF ~r.ok
            THEN /\ cache' = g.cache
                 /\ lastCall' = Call("start_with_room", s, 0, rooms, FALSE, <<>>,
                                     g.sent,
                                     UnknownRoomResult(g.cache.rooms, r.room))
            ELSE \E mode \in ModeReplies :
                 /\ cache' = [g.cache EXCEPT !.edge_state = EdgeList(mode)]
                 /\ lastCall' =
                       Call("start_with_room", s, 0, rooms, FALSE, <<>>,
                            g.sent \o
                              <<GetModeRpc,
                                Rpc("set_mode_withroom",
                                    mode \o <<1, 0, Len(r.room_ids)>>,
                                    r.room_ids)>>,
                            Result("return", "None"))
    /\ UNCHANGED <<followVars, statusVars, deriveVars,
                 moveVars, pointVars, consumableVars>>

\* the same querying the edge mode on every call
SetModeAlwaysQuery(s, op, action) ==
    /\ \E mode \in ModeReplies :
        /\ cache' = [cache EXCEPT !.edge_state = EdgeList(mode)]
        /\ lastCall' = Call(op, s, 0, <<>>, FALSE, <<>>,
                            <<GetModeRpc,
                              Rpc("set_mode", mode \o <<action>>, <<>>)>>,
                            Result("return", "None"))
    /\ UNCHANGED <<followVars, statusVars, deriveVars,
                 moveVars, pointVars, consumableVars>>

\* pause (action 2) and stop (action 0) share lines 627-629 / 637-639
SetMode(s, op, action) ==
    /\ \E mode \in ModeReplies :
        IF ~EdgeTruthy(cache.edge_state)
        THEN /\ cache' = [cache EXCEPT !.edge_state = EdgeList(mode)]
             /\ lastCall' = Call(op, s, 0, <<>>, FALSE, <<>>,
                                 <<GetModeRpc,
                                   Rpc("set_mode", mode \o <<action>>, <<>>)>>,
                                 Result("return", "None"))
        ELSE /\ lastCall' = Call(op, s, 0, <<>>, FALSE, <<>>,
                                 <<Rpc("set_mode",
                                       cache.edge_state.list \o <<action>>,
                                       <<>>)>>,
                                 Result("return", "None"))
             /\ UNCHANGED cache
    /\ UNCHANGED <<followVars, statusVars, deriveVars,
                 moveVars, pointVars, consumableVars>>

Pause(s) == SetMode(s, "pause", 2)

Stop(s) == SetMode(s, "stop", 0)

(***************************************************************************)
(* set_map / delete_map / rename_map                                       *)
(***************************************************************************)
MapNewNames == { <<"N">> }

\* the same without the membership test: the RPC is sent for any id
MutateMapUnchecked(s, op, verb, map_id, strs, maps) ==
    /\ lastCall' = Call(op, s, map_id, <<>>, FALSE, maps,
                        <<GetMapsRpc, Rpc(verb, <<map_id>>, strs)>>,
                        Result("return", "sent"))
    /\ UNCHANGED <<cache, followVars, statusVars, deriveVars,
                 moveVars, pointVars, consumableVars>>

\* lines 900-903, 908-911, 919-922: op is the method, verb the mutating RPC
MutateMap(s, op, verb, map_id, strs, maps) ==
    /\ IF map_id \notin MapIds(maps)
       THEN lastCall' = Call(op, s, map_id, <<>>, FALSE, maps, <<GetMapsRpc>>,
                             [Result("ViomiVacuumException", "map_id_missing")
                                 EXCEPT !.id = map_id])
       ELSE lastCall' = Call(op, s, map_id, <<>>, FALSE, maps,
                             <<GetMapsRpc, Rpc(verb, <<map_id>>, strs)>>,
                             Result("return", "sent"))
    /\ UNCHANGED <<cache, followVars, statusVars, deriveVars,
                 moveVars, pointVars, consumableVars>>

SetMap(s) ==
    \E map_id \in MapIdArgs, maps \in MapReplies :
        MutateMap(s, "set_map", "set_map", map_id, <<>>, maps)

DeleteMap(s) ==
    \E map_id \in MapIdArgs, maps \in MapReplies :
        MutateMap(s, "delete_map", "del_map", map_id, <<>>, maps)

RenameMap(s) ==
    \E map_id \in MapIdArgs, map_name \in MapNewNames, maps \in MapReplies :
        MutateMap(s, "rename_map", "rename_map", map_id, <<map_name>>, maps)

(***************************************************************************)
(* get_positions and follow_position                                       *)
(***************************************************************************)
MaxPositions == 2

image_size == 10000
wait_time == 1
NoPosLimitShort == 5 - 1
NoPosLimit == 5
plan_multiplicator == image_size \div 10
img_center == image_size \div 2

\* ViomiPositionPoint(pos_x, pos_y, phi, update, plan_multiplicator)
ViomiPositionPoint(x, y, phi, update) ==
    [x |-> x, y |-> y, phi |-> phi, update |-> update]
pos_x(p) == p.x * plan_multiplicator
pos_y(p) == p.y * plan_multiplicator
image_pos_x(p, offset) == pos_x(p) - offset + img_center
image_pos_y(p, offset) == pos_y(p) - offset + img_center

\* the same with the timestamp compared too
PointEqWithUpdate(a, b) ==
    /\ pos_x(a) = pos_x(b) /\ pos_y(a) = pos_y(b) /\ a.phi = b.phi
    /\ a.update = b.update

\* ViomiPositionPoint.__eq__
PointEq(a, b) == pos_x(a) = pos_x(b) /\ pos_y(a) = pos_y(b) /\ a.phi = b.phi

\* the same against the last retained point only
PointInLastOnly(p, history) ==
    history # <<>> /\ PointEq(history[Len(history)], p)

\* position in position_history
PointIn(p, history) == \E i \in DOMAIN history : PointEq(history[i], p)

\* the grouping of get_positions: zip drops an incomplete last group
GroupPositions(results) ==
    [i \in 1..(Len(results) \div 4) |->
        ViomiPositionPoint(results[4 * i - 3], results[4 * i - 2],
                           results[4 * i - 1], results[4 * i])]

\* device samples <<x, y, phi, update>>
CurposSamples == { <<0, 0, 0, 1>>, <<0, 0, 0, 2>>, <<1, 0, 0, 1>>, <<0, 0, 90, 1>> }

RECURSIVE Flatten(_)
Flatten(ss) == IF ss = <<>> THEN <<>> ELSE ss[1] \o Flatten(Tail(ss))

\* the flat replies of get_curpos, and one with a cut-off last sample
CurposReplies ==
    { Flatten(ss) : ss \in SeqsUpTo(CurposSamples, MaxPositions) }
    \cup { <<1, 0, 0, 1, 0, 0>> }

\* the for loop of lines 708-772 (the crop and the saved file are left out):
\* the history and the drawn segments after the positions are handled
RECURSIVE DrawPositions(_, _, _)
DrawPositions(ps, history, drawn) ==
    IF ps = <<>> THEN [history |-> history, segments |-> drawn]
    ELSE LET position == ps[1]
         IN  IF PointIn(position, history)
             THEN DrawPositions(Tail(ps), history, drawn)
             ELSE IF history = <<>>
             THEN DrawPositions(Tail(ps), <<position>>, drawn)
             ELSE IF ~PointEq(position, history[Len(history)])
             THEN LET offset_x == pos_x(history[1])
                      offset_y == pos_y(history[1])
                      last == history[Len(history)]
                      start_point == <<image_pos_x(last, offset_x),
                                       image_pos_y(last, offset_y)>>
                      end_point == <<image_pos_x(position, offset_x),
                                     image_pos_y(position, offset_y)>>
                  IN DrawPositions(Tail(ps), Append(history, position),
                                   Append(drawn, <<start_point, end_point>>))
             ELSE DrawPositions(Tail(ps), history, drawn)

\* the last fetch: its outcome, the sleep that followed it, and its place
FpEvent(poll, slept, where) == [poll |-> poll, slept |-> slept, where |-> where]

\* a reply with no position that differs from the retained ones
IsStale(reply, history) ==
    \A i \in DOMAIN GroupPositions(reply) :
        PointIn(GroupPositions(reply)[i], history)

\* the two run counters below only observe the replies; they stop at RunCap
RunCap == 6
Saturate(n) == IF n < RunCap THEN n + 1 ELSE n

\* lines 690-705: the fetch before the loop is outside any try
FollowStart ==
    /\ fp_pc = "idle"
    /\ \/ /\ fp_pc' = "raised"
          /\ fp_event' = FpEvent("error", 0, "before_loop")
          /\ UNCHANGED <<positions, stale_polls, empty_run>>
       \/ \E reply \in CurposReplies :
            /\ positions' = GroupPositions(reply)
            /\ fp_event' = FpEvent(IF positions' = <<>> THEN "empty" ELSE "ok", 0,
                                  "before_loop")
            /\ fp_pc' = IF positions' = <<>> THEN "done" ELSE "draw"
            /\ stale_polls' = IF IsStale(reply, position_history) THEN 1 ELSE 0
            /\ empty_run' = IF positions' = <<>> THEN 1 ELSE 0
    /\ UNCHANGED <<position_history, no_pos_found, segments>>
    /\ UNCHANGED <<facadeVars, statusVars, deriveVars,
                 moveVars, pointVars, consumableVars>>

\* lines 707-772: the loop guard has passed, the positions are handled
FollowDraw ==
    /\ fp_pc = "draw"
    /\ \E d \in {DrawPositions(positions, position_history, segments)} :
        /\ position_history' = d.history
        /\ segments' = d.segments
    /\ fp_pc' = "poll"
    /\ UNCHANGED <<positions, no_pos_found, stale_polls, empty_run, fp_event>>
    /\ UNCHANGED <<facadeVars, statusVars, deriveVars,
                 moveVars, pointVars, consumableVars>>

\* lines 774-795 and the loop guard of line 707 that follows them
\* the same with the exception ending the loop
PollFailedFatal ==
    /\ positions' = <<>>
    /\ fp_event' = FpEvent("error", wait_time * 4, "in_loop")
    /\ fp_pc' = "done"
    /\ stale_polls' = 0
    /\ UNCHANGED <<no_pos_found, empty_run>>

\* lines 777-784: the except branch, then `continue` to the loop guard
PollFailed ==
    /\ positions' = <<>>
    /\ fp_event' = FpEvent("error", wait_time * 4, "in_loop")
    /\ fp_pc' = IF no_pos_found < NoPosLimit THEN "draw" ELSE "done"
    /\ stale_polls' = 0
    /\ UNCHANGED <<no_pos_found, empty_run>>

\* the same with a non-empty reply leaving the counter as it is
FollowPollNoReset ==
    /\ fp_pc = "poll"
    /\ \/ PollFailed
       \/ \E reply \in CurposReplies :
            /\ positions' = GroupPositions(reply)
            /\ IF positions' = <<>>
               THEN /\ no_pos_found' = no_pos_found + 1
                    /\ fp_event' = FpEvent("empty", wait_time + wait_time, "in_loop")
                    /\ empty_run' = Saturate(empty_run)
               ELSE /\ no_pos_found' = no_pos_found
                    /\ fp_event' = FpEvent("ok", wait_time, "in_loop")
                    /\ empty_run' = 0
            /\ fp_pc' = IF no_pos_found' < NoPosLimit THEN "draw" ELSE "done"
            /\ stale_polls' = IF IsStale(reply, position_history)
                               THEN Saturate(stale_polls) ELSE 0
    /\ UNCHANGED <<position_history, segments>>
    /\ UNCHANGED <<facadeVars, statusVars, deriveVars,
                 moveVars, pointVars, consumableVars>>

\* lines 774-795, then the loop guard of line 707
FollowPoll ==
    /\ fp_pc = "poll"
    /\ \/ PollFailed
       \/ \E reply \in CurposReplies :
            /\ positions' = GroupPositions(reply)
            /\ IF positions' = <<>>
               THEN /\ no_pos_found' = no_pos_found + 1
                    /\ fp_event' = FpEvent("empty", wait_time + wait_time, "in_loop")
                    /\ empty_run' = Saturate(empty_run)
               ELSE /\ no_pos_found' = 0
                    /\ fp_event' = FpEvent("ok", wait_time, "in_loop")
                    /\ empty_run' = 0
            /\ fp_pc' = IF no_pos_found' < NoPosLimit THEN "draw" ELSE "done"
            /\ stale_polls' = IF IsStale(reply, position_history)
                               THEN Saturate(stale_polls) ELSE 0
    /\ UNCHANGED <<position_history, segments>>
    /\ UNCHANGED <<facadeVars, statusVars, deriveVars,
                 moveVars, pointVars, consumableVars>>

FollowNext == FollowStart \/ FollowDraw \/ FollowPoll

(***************************************************************************)
(* Durations                                                               *)
(***************************************************************************)
SecondsPerDay == 24 * 60 * 60

\* datetime.timedelta, normalised to days and seconds of the day
timedelta(seconds) ==
    [days |-> seconds \div SecondsPerDay, seconds |-> seconds % SecondsPerDay]
total_seconds(td) == td.days * SecondsPerDay + td.seconds
TimedeltaHours(hours) == timedelta(hours * 60 * 60)
TimedeltaSub(a, b) == timedelta(total_seconds(a) - total_seconds(b))

\* utils.pretty_seconds
pretty_seconds(x) == timedelta(x)

(***************************************************************************)
(* Enums and the ViomiVacuumStatus decoder                                 *)
(***************************************************************************)
RawBelow == 2
MaxRawCode == 14

\* a raw property value: an integer, or None for a key the snapshot lacks
Raw(v) == [none |-> FALSE, v |-> v]
NoneRaw == [none |-> TRUE, v |-> 0]
RawCodes == {Raw(v) : v \in (0 - RawBelow)..MaxRawCode} \cup {NoneRaw}

ViomiVacuumSpeed ==
    { <<"Silent", 0>>, <<"Standard", 1>>, <<"Medium", 2>>, <<"Turbo", 3>> }
ViomiVacuumState ==
    { <<"Unknown", -1>>, <<"IdleNotDocked", 0>>, <<"Idle", 1>>, <<"Idle2", 2>>,
      <<"Cleaning", 3>>, <<"Returning", 4>>, <<"Docked", 5>>,
      <<"VacuumingAndMopping", 6>> }
ViomiMode ==
    { <<"Vacuum", 0>>, <<"VacuumAndMop", 1>>, <<"Mop", 2>>, <<"CleanZone", 3>>,
      <<"CleanSpot", 4>> }
ViomiBinType ==
    { <<"Vacuum", 1>>, <<"Water", 2>>, <<"VacuumAndWater", 3>>, <<"NoBin", 0>> }
ViomiWaterGrade == { <<"Low", 11>>, <<"Medium", 12>>, <<"High", 13>> }
ViomiRoutePattern == { <<"S", 0>>, <<"Y", 1>> }
ViomiVoiceState == { <<"Off", 0>>, <<"On", 5>> }
ViomiEdgeState == { <<"Off", 0>>, <<"Unknown", 1>>, <<"On", 2>> }

EnumValues(enum) == {m[2] : m \in enum}

\* what an accessor gave: an enum member or a bool by name, a raw value
DecodedValue(accessor, kind, name, raw) ==
    [accessor |-> accessor, kind |-> kind, name |-> name, raw |-> raw]

Decoded(accessor, kind, name) == DecodedValue(accessor, kind, name, NoneRaw)

\* Enum(raw): the member with that value, or ValueError
EnumCall(enum, raw) ==
    IF ~raw.none /\ raw.v \in EnumValues(enum)
    THEN [kind |-> "value",
          name |-> (CHOOSE m \in enum : m[2] = raw.v)[1]]
    ELSE [kind |-> "ValueError", name |-> ""]

\* lines 283-290: the only accessor that catches ValueError
state(data) ==
    LET r == EnumCall(ViomiVacuumState, data["run_state"])
    IN  IF r.kind = "ValueError"
        THEN [kind |-> "value", name |-> "Unknown"]
        ELSE r

edge_state(data) == EnumCall(ViomiEdgeState, data["mode"])
bin_type(data) == EnumCall(ViomiBinType, data["box_type"])
fanspeed(data) == EnumCall(ViomiVacuumSpeed, data["suction_grade"])
water_grade(data) == EnumCall(ViomiWaterGrade, data["water_grade"])
mop_mode(data) == EnumCall(ViomiMode, data["is_mop"])
mop_route(data) == EnumCall(ViomiRoutePattern, data["mop_route"])
voice_state(data) == EnumCall(ViomiVoiceState, data["v_state"])

EnumProperties ==
    { "run_state", "mode", "box_type", "suction_grade", "water_grade",
      "is_mop", "mop_route", "v_state" }

\* lines 524-551: the names that status() asks for
Properties ==
    EnumProperties \cup
    { "battary_life", "cur_mapid", "err_state", "has_map", "has_newmap",
      "hw_info", "is_charge", "is_work", "light_state", "map_num", "mop_type",
      "order_time", "remember_map", "repeat_state", "s_area", "s_time",
      "start_time", "water_percent", "zone_data" }

\* a snapshot a healthy device reports
BaseSnapshot ==
    [p \in Properties |->
        IF p = "water_grade" THEN Raw(11) ELSE Raw(0)]

\* line 567: a snapshot with no key at all reads None everywhere
EmptySnapshot == [p \in Properties |-> NoneRaw]

\* snapshots that differ from the healthy one in one property, and the
\* empty one
Snapshots ==
    { [BaseSnapshot EXCEPT ![p] = raw] : p \in Properties, raw \in RawCodes }
    \cup { EmptySnapshot }

\* the integer keys of ERROR_CODES
ERROR_CODES ==
    { 0, 500, 501, 502, 503, 508, 509, 510, 511, 512, 513, 514, 515, 516,
      521, 522, 525, 527, 528, 529, 530, 531, 2101, 2103, 2105 }

\* bool(x) of a raw value
bool(raw) == ~raw.none /\ raw.v # 0

Returned(raw) == [kind |-> "value", name |-> "raw", raw |-> raw]
BoolResult(b) ==
    [kind |-> "value", name |-> IF b THEN "True" ELSE "False", raw |-> NoneRaw]

is_on(data) ==
    BoolResult(state(data).name \in {"Cleaning", "VacuumingAndMopping"})
error_code(data) == Returned(data["err_state"])
error(data) ==
    IF error_code(data).raw.none
    THEN [kind |-> "value", name |-> "None", raw |-> NoneRaw]
    ELSE IF error_code(data).raw.v \in ERROR_CODES
    THEN [kind |-> "value", name |-> "message", raw |-> error_code(data).raw]
    ELSE [kind |-> "value", name |-> "Unknown error",
          raw |-> error_code(data).raw]
\* timedelta(seconds=None) is a TypeError
clean_time(data) ==
    IF data["s_time"].none
    THEN [kind |-> "TypeError", name |-> "", raw |-> NoneRaw]
    ELSE [kind |-> "value", name |-> "timedelta",
          raw |-> Raw(total_seconds(pretty_seconds(data["s_time"].v)))]
\* line 411: the raw flag itself
charging(data) == Returned(data["is_charge"])
\* line 424
working(data) == BoolResult(~bool(data["is_work"]))

Access(accessor, r) ==
    /\ decoded' = Decoded(accessor, r.kind, r.name)
    /\ UNCHANGED <<status_data, facadeVars, followVars, deriveVars,
                 moveVars, pointVars, consumableVars>>

State == Access("state", state(status_data))
EdgeState == Access("edge_state", edge_state(status_data))
BinType == Access("bin_type", bin_type(status_data))
Fanspeed == Access("fanspeed", fanspeed(status_data))
WaterGrade == Access("water_grade", water_grade(status_data))
MopMode == Access("mop_mode", mop_mode(status_data))
MopRoute == Access("mop_route", mop_route(status_data))
VoiceState == Access("voice_state", voice_state(status_data))

\* the accessors that return self.data[key] as it is, with their keys
RawAccessors ==
    [ battery |-> "battary_life",
      clean_area |-> "s_area",
      current_map_id |-> "cur_mapid",
      hw_info |-> "hw_info",
      map_number |-> "map_num",
      order_time |-> "order_time",
      repeat_state |-> "repeat_state",
      start_time |-> "start_time",
      water_percent |-> "water_percent",
      zone_data |-> "zone_data" ]

\* the accessors that return bool(self.data[key]), with their keys
BoolAccessors ==
    [ mop_installed |-> "mop_type",
      remember_map |-> "remember_map",
      has_map |-> "has_map",
      has_new_map |-> "has_newmap",
      light_state |-> "light_state" ]

AccessValue(accessor, r) ==
    /\ decoded' = DecodedValue(accessor, r.kind, r.name, r.raw)
    /\ UNCHANGED <<status_data, facadeVars, followVars, deriveVars,
                   moveVars, pointVars, consumableVars>>

ReadRaw ==
    \E accessor \in DOMAIN RawAccessors :
        AccessValue(accessor, Returned(status_data[RawAccessors[accessor]]))
ReadBool ==
    \E accessor \in DOMAIN BoolAccessors :
        AccessValue(accessor,
                    BoolResult(bool(status_data[BoolAccessors[accessor]])))
IsOn == AccessValue("is_on", is_on(status_data))
ErrorCode == AccessValue("error_code", error_code(status_data))
Error == AccessValue("error", error(status_data))
CleanTime == AccessValue("clean_time", clean_time(status_data))
Charging == AccessValue("charging", charging(status_data))
Working == AccessValue("working", working(status_data))

StatusNext ==
    \/ State
    \/ EdgeState
    \/ BinType
    \/ Fanspeed
    \/ WaterGrade
    \/ MopMode
    \/ MopRoute
    \/ VoiceState
    \/ ReadRaw
    \/ ReadBool
    \/ IsOn
    \/ ErrorCode
    \/ Error
    \/ CleanTime
    \/ Charging
    \/ Working

(***************************************************************************)
(* Room-table derivation on its own: one get_rooms call on a fresh cache   *)
(***************************************************************************)
EmptyCache == [edge_state |-> EdgeNone, rooms |-> <<>>]

DeriveRooms ==
    /\ derived = NoCall
    /\ \E refresh \in BOOLEAN :
       \E g \in {get_rooms(EmptyCache, 0, "", refresh, <<>>, ordertime)} :
            derived' = Call("get_rooms", 1, 0, <<>>, refresh, <<>>, g.sent,
                            g.result)
    /\ UNCHANGED <<ordertime, facadeVars, followVars, statusVars,
                 moveVars, pointVars, consumableVars>>

DeriveNext == DeriveRooms

(***************************************************************************)
(* move: manual movement                                                   *)
(***************************************************************************)
\* durations and clock readings are counted in sleeps of 0.1 s
MaxDuration == 3
Durations == 0..MaxDuration

\* what one pass of the loop (a send and the sleep) adds to time.time()
LoopSteps == {1, 2}

ViomiMovementDirection ==
    { <<"Forward", 1>>, <<"Left", 2>>, <<"Right", 3>>, <<"Backward", 4>>,
      <<"Stop", 5>>, <<"Unknown", 10>> }

MemberValue(enum, name) == (CHOOSE m \in enum : m[1] = name)[2]

SetDirectionRpc(value) == Rpc("set_direction", <<value>>, <<>>)

MoveIdle ==
    /\ mv_pc = "idle"
    /\ mv_direction = 0
    /\ mv_duration = 0
    /\ mv_elapsed = 0
    /\ mv_sent = <<>>

\* line 1019: start = time.time()
MoveStart ==
    /\ mv_pc = "idle"
    /\ \E direction \in ViomiMovementDirection, duration \in Durations :
        /\ mv_direction' = direction[2]
        /\ mv_duration' = duration
    /\ mv_elapsed' = 0
    /\ mv_pc' = "loop"
    /\ UNCHANGED mv_sent
    /\ UNCHANGED <<facadeVars, followVars, statusVars, deriveVars,
                   pointVars, consumableVars>>

\* the same with the loop in a try whose finally sends Stop
MoveSendFinally ==
    /\ mv_pc = "loop"
    /\ mv_elapsed < mv_duration
    /\ \/ /\ mv_sent' = Append(mv_sent, SetDirectionRpc(mv_direction))
          /\ \E step \in LoopSteps : mv_elapsed' = mv_elapsed + step
          /\ UNCHANGED mv_pc
       \/ /\ mv_pc' = "raised"
          /\ mv_sent' = Append(mv_sent,
                SetDirectionRpc(MemberValue(ViomiMovementDirection, "Stop")))
          /\ UNCHANGED mv_elapsed
    /\ UNCHANGED <<mv_direction, mv_duration>>
    /\ UNCHANGED <<facadeVars, followVars, statusVars, deriveVars,
                   pointVars, consumableVars>>

\* lines 1020-1022: one pass of the loop; an exception of send leaves move
MoveSend ==
    /\ mv_pc = "loop"
    /\ mv_elapsed < mv_duration
    /\ \/ /\ mv_sent' = Append(mv_sent, SetDirectionRpc(mv_direction))
          /\ \E step \in LoopSteps : mv_elapsed' = mv_elapsed + step
          /\ UNCHANGED mv_pc
       \/ /\ mv_pc' = "raised"
          /\ UNCHANGED <<mv_sent, mv_elapsed>>
    /\ UNCHANGED <<mv_direction, mv_duration>>
    /\ UNCHANGED <<facadeVars, followVars, statusVars, deriveVars,
                   pointVars, consumableVars>>

\* line 1023: the loop guard has failed, Stop is sent
MoveStop ==
    /\ mv_pc = "loop"
    /\ ~(mv_elapsed < mv_duration)
    /\ \/ /\ mv_sent' = Append(mv_sent,
                SetDirectionRpc(MemberValue(ViomiMovementDirection, "Stop")))
          /\ mv_pc' = "done"
       \/ /\ mv_pc' = "raised"
          /\ UNCHANGED mv_sent
    /\ UNCHANGED <<mv_direction, mv_duration, mv_elapsed>>
    /\ UNCHANGED <<facadeVars, followVars, statusVars, deriveVars,
                   pointVars, consumableVars>>

MoveNext == MoveStart \/ MoveSend \/ MoveStop

(***************************************************************************)
(* ViomiPositionPoint comparison                                           *)
(***************************************************************************)
PointSamples ==
    { ViomiPositionPoint(x, y, phi, update) :
        x \in 1..2, y \in 2..3, phi \in 90..91, update \in 1..2 }

Compared(op, result) == [op |-> op, result |-> result]

PointIdle ==
    /\ pt_a = ViomiPositionPoint(0, 0, 0, 0)
    /\ pt_b = ViomiPositionPoint(0, 0, 0, 0)
    /\ pt_eq = Compared("none", FALSE)

\* pt_a == pt_b
PointCompareEq ==
    /\ pt_eq' = Compared("eq", PointEq(pt_a, pt_b))
    /\ UNCHANGED <<pt_a, pt_b>>
    /\ UNCHANGED <<facadeVars, followVars, statusVars, deriveVars,
                   moveVars, consumableVars>>

\* pt_a != pt_b: object.__ne__ inverts __eq__
PointCompareNe ==
    /\ pt_eq' = Compared("ne", ~PointEq(pt_a, pt_b))
    /\ UNCHANGED <<pt_a, pt_b>>
    /\ UNCHANGED <<facadeVars, followVars, statusVars, deriveVars,
                   moveVars, consumableVars>>

PointNext == PointCompareEq \/ PointCompareNe

(***************************************************************************)
(* ViomiConsumableStatus                                                   *)
(***************************************************************************)
\* usage hours that get_consumables reports, one per part
ConsumableHours == {0, 17, 180, 400}
ConsumableReplies == [1..4 -> ConsumableHours]

\* lines 95-101: the attributes that __init__ sets
ViomiConsumableStatus(data) ==
    [data |-> [i \in DOMAIN data |-> data[i] * 60 * 60],
     side_brush_total |-> TimedeltaHours(180),
     main_brush_total |-> TimedeltaHours(360),
     filter_total |-> TimedeltaHours(180),
     mop_total |-> TimedeltaHours(180)]

ConsumableOut(accessor, kind, td) ==
    [accessor |-> accessor, kind |-> kind, td |-> td]

main_brush(c) == pretty_seconds(c.data[1])
main_brush_left(c) == [kind |-> "return",
                       td |-> TimedeltaSub(c.main_brush_total, main_brush(c))]
side_brush(c) == pretty_seconds(c.data[2])
side_brush_left(c) == [kind |-> "return",
                       td |-> TimedeltaSub(c.side_brush_total, side_brush(c))]
filter(c) == pretty_seconds(c.data[3])
filter_left(c) == [kind |-> "return",
                   td |-> TimedeltaSub(c.filter_total, filter(c))]
mop(c) == pretty_seconds(c.data[4])

\* lines 138-141: reads self.sensor_dirty_total, which is none of the
\* attributes of lines 95-101 (__init__ does not call the base __init__)
mop_left(c) ==
    IF "sensor_dirty_total" \in DOMAIN c
    THEN [kind |-> "return",
          td |-> TimedeltaSub(c.sensor_dirty_total, c.sensor_dirty)]
    ELSE [kind |-> "AttributeError", td |-> timedelta(0)]

ConsumableIdle ==
    /\ cons_data = [i \in 1..4 |-> 0]
    /\ cons_out = ConsumableOut("none", "none", timedelta(0))

ReadConsumable(accessor, r) ==
    /\ cons_out' = ConsumableOut(accessor, r.kind, r.td)
    /\ UNCHANGED cons_data
    /\ UNCHANGED <<facadeVars, followVars, statusVars, deriveVars,
                   moveVars, pointVars>>

MainBrushLeft ==
    ReadConsumable("main_brush_left",
                   main_brush_left(ViomiConsumableStatus(cons_data)))
SideBrushLeft ==
    ReadConsumable("side_brush_left",
                   side_brush_left(ViomiConsumableStatus(cons_data)))
FilterLeft ==
    ReadConsumable("filter_left", filter_left(ViomiConsumableStatus(cons_data)))
MopLeft ==
    ReadConsumable("mop_left", mop_left(ViomiConsumableStatus(cons_data)))

ConsumableNext == MainBrushLeft \/ SideBrushLeft \/ FilterLeft \/ MopLeft

(***************************************************************************)
(* Specification of the command facade                                     *)
(***************************************************************************)
FacadeInit ==
    /\ cache = EmptyCache
    /\ lastCall = NoCall

FollowIdle ==
    /\ fp_pc = "idle"
    /\ positions = <<>>
    /\ position_history = <<>>
    /\ no_pos_found = 0
    /\ segments = <<>>
    /\ stale_polls = 0
    /\ empty_run = 0
    /\ fp_event = FpEvent("none", 0, "none")

StatusIdle ==
    /\ status_data = BaseSnapshot
    /\ decoded = Decoded("none", "none", "")

DeriveIdle ==
    /\ ordertime = <<>>
    /\ derived = NoCall

PureIdle == MoveIdle /\ PointIdle /\ ConsumableIdle

Init == FacadeInit /\ FollowIdle /\ StatusIdle /\ DeriveIdle /\ PureIdle

Next ==
    \E s \in Sessions :
        \/ Start(s)
        \/ StartWithRoom(s)
        \/ Pause(s)
        \/ Stop(s)
        \/ GetRooms(s)

Spec == Init /\ [][Next]_vars

MapsNext ==
    \E s \in Sessions :
        \/ SetMap(s)
        \/ DeleteMap(s)
        \/ RenameMap(s)

SpecMaps == Init /\ [][MapsNext]_vars

SpecFollow == Init /\ [][FollowNext]_vars

StatusInit ==
    /\ FacadeInit /\ FollowIdle /\ DeriveIdle /\ PureIdle
    /\ status_data \in Snapshots
    /\ decoded = Decoded("none", "none", "")

SpecStatus == StatusInit /\ [][StatusNext]_vars

DeriveInit ==
    /\ FacadeInit /\ FollowIdle /\ StatusIdle /\ PureIdle
    /\ ordertime \in ScheduleReplies
    /\ derived = NoCall

SpecDerive == DeriveInit /\ [][DeriveNext]_vars

SpecMove == Init /\ [][MoveNext]_vars
PointInit ==
    /\ FacadeInit /\ FollowIdle /\ StatusIdle /\ DeriveIdle
    /\ MoveIdle /\ ConsumableIdle
    /\ pt_a \in PointSamples
    /\ pt_b \in PointSamples
    /\ pt_eq = Compared("none", FALSE)

SpecPoint == PointInit /\ [][PointNext]_vars

ConsumableInit ==
    /\ FacadeInit /\ FollowIdle /\ StatusIdle /\ DeriveIdle
    /\ MoveIdle /\ PointIdle
    /\ cons_data \in ConsumableReplies
    /\ cons_out = ConsumableOut("none", "none", timedelta(0))

SpecConsumable == ConsumableInit /\ [][ConsumableNext]_vars

(***************************************************************************)
(* Properties                                                              *)
(***************************************************************************)
Verbs(sent) == {sent[i].verb : i \in DOMAIN sent}
MapMethods == {"set_map", "delete_map", "rename_map"}
MapVerbs == {"set_map", "del_map", "rename_map"}
MapVerbOf(op) == IF op = "delete_map" THEN "del_map" ELSE op

\* C1: set_map, delete_map and rename_map first fetch the map list; when
\* map_id is not among the ids of the list the call raises a
\* ViomiVacuumException naming the id and no mutating RPC is sent; when the
\* id is present the mutating RPC of the method is sent.
C1_MapIdChecked ==
    lastCall.op \in MapMethods =>
        /\ Len(lastCall.sent) >= 1
        /\ lastCall.sent[1].verb = "get_map"
        /\ IF \E i \in DOMAIN lastCall.maps : lastCall.maps[i].id = lastCall.id
           THEN /\ Len(lastCall.sent) = 2
                /\ lastCall.sent[2].verb = MapVerbOf(lastCall.op)
                /\ lastCall.sent[2].ints = <<lastCall.id>>
                /\ lastCall.result.kind = "return"
           ELSE /\ Verbs(lastCall.sent) \cap MapVerbs = {}
                /\ lastCall.result.kind = "ViomiVacuumException"
                /\ lastCall.result.what = "map_id_missing"
                /\ lastCall.result.id = lastCall.id

\* a rename of an id that a non-empty map list does not hold was refused
C1_Witness ==
    /\ lastCall.op = "rename_map"
    /\ lastCall.maps # <<>>
    /\ lastCall.result.kind = "ViomiVacuumException"

EnumAccessors ==
    { "state", "edge_state", "bin_type", "fanspeed", "water_grade",
      "mop_mode", "mop_route", "voice_state" }

AccessorProperty(a) ==
    CASE a = "state" -> "run_state"
      [] a = "edge_state" -> "mode"
      [] a = "bin_type" -> "box_type"
      [] a = "fanspeed" -> "suction_grade"
      [] a = "water_grade" -> "water_grade"
      [] a = "mop_mode" -> "is_mop"
      [] a = "mop_route" -> "mop_route"
      [] a = "voice_state" -> "v_state"

AccessorCodes(a) ==
    CASE a = "state" -> (-1)..6
      [] a = "edge_state" -> 0..2
      [] a = "bin_type" -> 0..3
      [] a = "fanspeed" -> 0..3
      [] a = "water_grade" -> 11..13
      [] a = "mop_mode" -> 0..4
      [] a = "mop_route" -> 0..1
      [] a = "voice_state" -> {0, 5}

\* C2: for every enum-typed accessor, a raw integer code that is not a value
\* of the enum decodes to the Unknown variant and never raises.
C2_UnknownNeverRaises ==
    (/\ decoded.accessor \in EnumAccessors
     /\ ~status_data[AccessorProperty(decoded.accessor)].none
     /\ status_data[AccessorProperty(decoded.accessor)].v
            \notin AccessorCodes(decoded.accessor))
    => (decoded.kind = "value" /\ decoded.name = "Unknown")

EdgeMethods == {"start", "start_with_room", "pause", "stop"}
QueriesMode(call) == "get_prop" \in Verbs(call.sent)

\* C3 as stated: after a start, start_with_room, pause or stop of a session
\* has queried the edge mode, the next such call of that session does not
\* query it again.
C3_QueriedAtMostOnce ==
    [][(/\ lastCall.op \in EdgeMethods
        /\ QueriesMode(lastCall)
        /\ lastCall'.op \in EdgeMethods
        /\ lastCall'.s = lastCall.s)
       => ~QueriesMode(lastCall')]_vars

\* C3 amended: pause and stop query the edge mode exactly when the cache
\* holds none, and otherwise send the cached value; start, and
\* start_with_room when it sends its command, query on every call; every
\* query overwrites the cached value with the reply.
C3_QueryOnlyPauseStopLazy ==
    [][(lastCall'.op \in EdgeMethods /\ lastCall' # lastCall) =>
        /\ lastCall'.op \in {"pause", "stop"} =>
              /\ QueriesMode(lastCall') <=> cache.edge_state.isNone
              /\ ~cache.edge_state.isNone =>
                    /\ Len(lastCall'.sent) = 1
                    /\ lastCall'.sent[1].ints =
                          cache.edge_state.list
                            \o <<IF lastCall'.op = "pause" THEN 2 ELSE 0>>
                    /\ cache' = cache
        /\ lastCall'.op = "start" => QueriesMode(lastCall')
        /\ (lastCall'.op = "start_with_room"
            /\ "set_mode_withroom" \in Verbs(lastCall'.sent))
              => QueriesMode(lastCall')
        /\ QueriesMode(lastCall') =>
              /\ ~cache'.edge_state.isNone
              /\ lastCall'.sent[Len(lastCall'.sent)].ints[1]
                    = cache'.edge_state.list[1]]_vars

\* a pause reused the cached edge mode without asking the device
C3_Witness ==
    /\ lastCall.op = "pause"
    /\ ~QueriesMode(lastCall)
    /\ lastCall.sent[1].ints = cache.edge_state.list \o <<2>>

\* C4 as stated: follow_position has ended once five polls in a row have
\* each returned no position that differs from the retained ones, whether
\* the reply was empty or held only positions already seen.
C4_EndsAfterFiveStalePolls ==
    stale_polls >= 5 => fp_pc = "done"

\* C4 amended: the loop ends exactly when the count of empty replies since
\* the last non-empty reply (empty_run) reaches five; a failed poll neither
\* counts nor resets the count, and a non-empty reply resets it even when
\* every position in it is already retained.
C4_EndsAfterFiveEmptyPolls ==
    /\ empty_run >= 5 => fp_pc = "done"
    /\ (fp_pc = "done" /\ position_history # <<>>) => empty_run = 5

\* the loop has ended after five empty replies with a failed poll among them
C4_Witness ==
    /\ fp_pc = "done"
    /\ empty_run = 5
    /\ stale_polls < 5
    /\ Len(position_history) >= 2

\* C5 as stated: a failed position fetch, the first one included, never
\* ends or aborts follow_position; the positions are empty for that
\* iteration, a backoff sleep is taken and the fetch is retried.
C5_FailedFetchNeverEnds ==
    fp_event.poll = "error" =>
        /\ fp_pc \in {"draw", "poll"}
        /\ positions = <<>>
        /\ fp_event.slept > 0

\* C5 amended: a failed fetch inside the loop never ends follow_position:
\* the positions are empty for that iteration, a sleep of 4 * wait_time is
\* taken, the counter of empty polls is left alone and the fetch is
\* retried; a failure of the first fetch, made before the loop, propagates
\* to the caller.
C5_FailedPollInLoopRetried ==
    /\ (fp_event.poll = "error" /\ fp_event.where = "in_loop") =>
          /\ fp_pc \in {"draw", "poll"}
          /\ positions = <<>>
          /\ fp_event.slept = 4 * wait_time
          /\ no_pos_found < NoPosLimit
    /\ fp_pc = "raised" <=>
          (fp_event.poll = "error" /\ fp_event.where = "before_loop")

\* after a failed poll in the loop the fetch is about to be made again
C5_Witness ==
    /\ fp_event.poll = "error"
    /\ fp_event.where = "in_loop"
    /\ fp_pc = "poll"
    /\ no_pos_found > 0

RoomNames(table) == DictKeys(table) \cup DictValues(table)
RoomCommands(sent) == {i \in DOMAIN sent : sent[i].verb = "set_mode_withroom"}
TableBuilt(call) == call.result.what # "fake_schedule_not_found"

\* C6: start_with_room with a room that is neither an id nor a name of the
\* room table returns an error value that lists the valid ids and names; it
\* does not raise and sends no set_mode_withroom command.
C6_UnknownRoomReturnsError ==
    (/\ lastCall.op = "start_with_room"
     /\ TableBuilt(lastCall)
     /\ \E i \in DOMAIN lastCall.rooms :
            lastCall.rooms[i] \notin RoomNames(cache.rooms))
    => /\ lastCall.result.kind = "return"
       /\ lastCall.result.what = "rooms_unknown"
       /\ lastCall.result.ids = DictKeys(cache.rooms)
       /\ lastCall.result.names = DictValues(cache.rooms)
       /\ RoomCommands(lastCall.sent) = {}

C8_CachedAfterFirstDerivation ==
    [][(/\ lastCall.op = "get_rooms"
        /\ lastCall.result.kind = "return"
        /\ lastCall'.op = "get_rooms"
        /\ lastCall'.s = lastCall.s
        /\ ~lastCall'.refresh)
       => /\ lastCall'.sent = <<>>
          /\ lastCall'.result.kind = "return"
          /\ lastCall'.result.table = cache.rooms]_vars

\* the fields of an underscore-delimited schedule
EnabledOf(raw) == split(raw)[2]
HourOf(raw) == split(raw)[4]
MinuteOf(raw) == split(raw)[5]
RoomFieldsOf(raw) == SubSeq(split(raw), 13, Len(split(raw)))
Qualifies(raw) ==
    EnabledOf(raw) = <<"0">> /\ HourOf(raw) = <<"0">> /\ MinuteOf(raw) = <<"0">>
Qualifying(schedules) == {i \in DOMAIN schedules : Qualifies(schedules[i])}

\* C9: a get_rooms call that derives the table raises the guidance error
\* exactly when no schedule of the reply has enabled = 0, hour = 0 and
\* minute = 0, and returns a table when one has.
C9_GuidanceIffNoFakeSchedule ==
    derived.op = "get_rooms" =>
        /\ (/\ derived.result.kind = "ViomiVacuumException"
            /\ derived.result.what = "fake_schedule_not_found")
              <=> Qualifying(ordertime) = {}
        /\ derived.result.kind = "return" <=> Qualifying(ordertime) # {}
        /\ derived.sent = <<GetOrdertimeRpc>>

\* two schedules were returned, none of them a fake one
C9_Witness ==
    /\ derived.op = "get_rooms"
    /\ Len(ordertime) = 2
    /\ derived.result.what = "fake_schedule_not_found"

\* the pairs id, name that the room fields of a schedule hold
FullPairs(raw) ==
    {<<RoomFieldsOf(raw)[2 * k - 1], RoomFieldsOf(raw)[2 * k]>> :
        k \in 1..(Len(RoomFieldsOf(raw)) \div 2)}

\* C10 as stated: the derived table holds exactly the pairs id, name of the
\* room fields of the qualifying schedules.
C10_TableIsAllPairs ==
    derived.result.kind = "return" =>
        DictItems(derived.result.table)
            = UNION {FullPairs(ordertime[i]) : i \in Qualifying(ordertime)}

\* the k-th pair of schedule i; a last field without a partner gets None
PairAt(schedules, i, k) ==
    LET t == RoomFieldsOf(schedules[i])
    IN  <<t[2 * k - 1], IF 2 * k <= Len(t) THEN t[2 * k] ELSE NoneStr>>

PairPlaces(schedules) ==
    UNION {{<<i, k>> : k \in 1..((Len(RoomFieldsOf(schedules[i])) + 1) \div 2)} :
              i \in Qualifying(schedules)}

Later(o, p) == p[1] > o[1] \/ (p[1] = o[1] /\ p[2] > o[2])

\* C10 amended: the derived table holds exactly the pairs id, name of the
\* room fields of the qualifying schedules, taken pairwise, where a last
\* field without a partner is an id whose name is None and, of several
\* pairs with the same id, only the last one in reply order is kept.
C10_TableIsLastPairPerId ==
    derived.result.kind = "return" =>
        DictItems(derived.result.table)
            = {PairAt(ordertime, o[1], o[2]) :
                 o \in {q \in PairPlaces(ordertime) :
                          ~\E p \in PairPlaces(ordertime) :
                              /\ Later(q, p)
                              /\ PairAt(ordertime, p[1], p[2])[1]
                                    = PairAt(ordertime, q[1], q[2])[1]}}

\* two fake schedules gave one table in which an id was named twice
C10_Witness ==
    /\ derived.result.kind = "return"
    /\ Cardinality(Qualifying(ordertime)) = 2
    /\ Len(derived.result.table) = 3
    /\ NoneStr \in DictValues(derived.result.table)

StopValue == MemberValue(ViomiMovementDirection, "Stop")
MoveEnded == mv_pc \in {"done", "raised"}
FailedInRepeatedPhase == mv_pc = "raised" /\ mv_elapsed < mv_duration
AllButLastRequested ==
    \A i \in 1..(Len(mv_sent) - 1) : mv_sent[i] = SetDirectionRpc(mv_direction)
EndsWithStop ==
    /\ mv_sent # <<>>
    /\ mv_sent[Len(mv_sent)] = SetDirectionRpc(StopValue)
    /\ AllButLastRequested

\* C11 as stated: every invocation of move, for every duration and also
\* when a send of the repeated phase fails, has sent zero or more
\* set_direction commands with the requested direction and then a
\* set_direction with Stop as its last command.
C11_AlwaysEndsWithStop ==
    (mv_pc = "done" \/ FailedInRepeatedPhase) => EndsWithStop

\* C11: a move that ends without a transport failure has sent zero or more
\* set_direction commands with the requested direction and then one
\* set_direction with Stop as its last command, for every duration; a move
\* that a failed send has ended has sent only set_direction commands with
\* the requested direction before the failure and nothing after it, so when
\* the failure is in the repeated phase no Stop follows.
C11_EndsWithStopUnlessSendFails ==
    /\ mv_pc = "done" => EndsWithStop
    /\ mv_pc \in {"loop", "raised"} =>
            \A i \in DOMAIN mv_sent : mv_sent[i] = SetDirectionRpc(mv_direction)

C11_Witness ==
    /\ FailedInRepeatedPhase
    /\ Len(mv_sent) >= 2
    /\ mv_direction # StopValue

\* C13: two points compare equal exactly when their x, their y and their
\* phi are equal, whatever their update timestamps are, and != is the
\* negation of that.
C13_EqualIffSameXYPhi ==
    LET same == pt_a.x = pt_b.x /\ pt_a.y = pt_b.y /\ pt_a.phi = pt_b.phi
    IN  /\ pt_eq.op = "eq" => (pt_eq.result <=> same)
        /\ pt_eq.op = "ne" => (pt_eq.result <=> ~same)

C13_Witness ==
    /\ pt_eq.op = "eq"
    /\ pt_eq.result
    /\ pt_a.update # pt_b.update

LeftAccessors ==
    {"main_brush_left", "side_brush_left", "filter_left", "mop_left"}
RatedHours(accessor) == IF accessor = "main_brush_left" THEN 360 ELSE 180
ElapsedHours(accessor) ==
    cons_data[CASE accessor = "main_brush_left" -> 1
                [] accessor = "side_brush_left" -> 2
                [] accessor = "filter_left" -> 3
                [] OTHER -> 4]

\* C14 as stated: each of main_brush_left, side_brush_left, filter_left and
\* mop_left returns the rated total of its part (360 h for the main brush,
\* 180 h for the others) minus the usage the device reported for that part,
\* as a signed duration.
C14_LeftIsRatedMinusElapsed ==
    cons_out.accessor \in LeftAccessors =>
        /\ cons_out.kind = "return"
        /\ total_seconds(cons_out.td) =
            (RatedHours(cons_out.accessor) - ElapsedHours(cons_out.accessor))
                * 60 * 60

\* C12 as stated: a call on one session leaves the cached edge-mode and the
\* cached room table that every other session sees as they were.
C12_OtherSessionCacheUntouched ==
    [][\A s \in Sessions :
          lastCall'.s # s => SessionCache(s)' = SessionCache(s)]_vars

Omits(data) == \E p \in Properties : data[p].none

\* C15 as stated: on a snapshot that lacks some of the property names every
\* accessor returns a value (None or a fallback member) and raises nothing.
C15_AccessorsTotalOnOmittedKeys ==
    (decoded.accessor # "none" /\ Omits(status_data)) => decoded.kind = "value"

\* Python truthiness of what an accessor returned
Truthy(d) ==
    IF d.name = "raw" THEN bool(d.raw) ELSE d.name = "True"

\* C16 as stated: charging is true exactly when the raw is_charge flag is 0
\* and false when it is 1.
C16_ChargingIffFlagZero ==
    (decoded.accessor = "charging"
        /\ status_data["is_charge"] \in {Raw(0), Raw(1)}) =>
        (Truthy(decoded) <=> status_data["is_charge"] = Raw(0))

\* C17: inside the loop a poll ends follow_position exactly when it is an
\* empty poll that brings the count of empty polls since the last non-empty
\* one to five; a non-empty poll sets the count to zero and the loop goes
\* on; after the return no further get_curpos is sent.
C17_FifthEmptyPollEndsLoop ==
    [][/\ fp_pc = "poll" =>
            /\ fp_pc' = "done" <=>
                    (fp_event'.poll = "empty" /\ empty_run' = 5)
            /\ fp_pc' = "done" => no_pos_found' = 5
            /\ fp_event'.poll = "ok" => (no_pos_found' = 0 /\ fp_pc' = "draw")
            /\ fp_event'.poll = "empty" => no_pos_found' = no_pos_found + 1
       /\ fp_pc = "done" => fp_event' = fp_event]_vars

C17_Witness ==
    /\ fp_pc = "done"
    /\ fp_event = FpEvent("empty", wait_time + wait_time, "in_loop")
    /\ no_pos_found = 5
    /\ Len(segments) >= 1

SameXYPhi(a, b) == a.x = b.x /\ a.y = b.y /\ a.phi = b.phi
ImagePoint(p, first) ==
    <<image_pos_x(p, pos_x(first)), image_pos_y(p, pos_y(first))>>

\* C18: the retained position history never holds two points with the same
\* x, y and phi, and the drawn segments are exactly the lines from each
\* retained point to the one retained next, so every segment starts at the
\* point retained last and ends at a point equal to none retained before.
C18_HistoryDistinctSegmentsChained ==
    /\ \A i, j \in DOMAIN position_history :
            i < j => ~SameXYPhi(position_history[i], position_history[j])
    /\ Len(segments) =
            IF position_history = <<>> THEN 0 ELSE Len(position_history) - 1
    /\ \A k \in DOMAIN segments :
            segments[k] = <<ImagePoint(position_history[k], position_history[1]),
                            ImagePoint(position_history[k + 1],
                                       position_history[1])>>

C18_Witness ==
    /\ Len(position_history) >= 3
    /\ Len(segments) = 2
    /\ stale_polls >= 1
====
